---------------------------- MODULE Spec2Model ----------------------------
(***************************************************************************)
(* Model of the tool functions of the UR agent:                            *)
(*   - update_user_requirements  (src/src/tools/update_user_requirements)  *)
(*   - extract_information       (src/src/tools/extract_information)       *)
(*   - process_uploaded_pdf      (src/src/preprocessing/main)              *)
(*                                                                         *)
(* Python values are encoded as TLA+ strings.  A Python str is the string  *)
(* itself; the two non-str values the model uses are the tokens PyNone and *)
(* PyInt.  A Python dict is a function whose domain is a finite set of     *)
(* strings; a Python list is a sequence.                                   *)
(***************************************************************************)
EXTENDS Integers, Sequences, FiniteSets, TLC

VARIABLES
    \* ---- update_user_requirements ----
    upd_pc,                      \* "ready" | "returned" | "raised" | "replaced"
    current_requirements_list,   \* the caller's list of requirement dicts
    update_instructions,         \* the UpdateInstructions of the call
    list_before,                 \* the list as it was when the call started
    upd_out,                     \* what the call returned or raised
    \* ---- extract_information ----
    ex_pc,                       \* "start" | "client" | "loop" | "after" | "done" | "off"
    ex_args,                     \* gcs_uri, project_id, processor_id, page_chunk_size
    pdf_document,                \* the PDF behind gcs_uri: the text of each page
    client,                      \* "none" | "constructed"
    current_page_start,
    all_extracted_text,          \* list of the chunks' texts
    requests,                    \* the process_document calls issued so far
    ex_result,                   \* the returned dict, EmptyDict before the return
    \* ---- process_uploaded_pdf ----
    pdf_pc,                      \* "event" | "download" | "extract" | "upload" |
                                 \* "skipped" | "finished" | "raised" | "off"
    file_name,                   \* event['name'], spelled character by character
    source_pdf,                  \* the uploaded object: the text of each page
    temp_pdf_path,
    raw_text,
    tmp_files,                   \* the paths that exist under /tmp
    kb_bucket                    \* the Knowledge Base bucket: blob name -> text

upd_vars == <<upd_pc, current_requirements_list, update_instructions, list_before, upd_out>>
ex_vars  == <<ex_pc, ex_args, pdf_document, client, current_page_start,
              all_extracted_text, requests, ex_result>>
pdf_vars == <<pdf_pc, file_name, source_pdf, temp_pdf_path, raw_text, tmp_files, kb_bucket>>
vars == <<upd_vars, ex_vars, pdf_vars>>

-----------------------------------------------------------------------------
(* Python values *)

PyNone == "<None>"
PyInt  == "<int 7>"
IsStr(v) == v \notin {PyNone, PyInt}

EmptyDict == [k \in {} |-> PyNone]

\* dict.get(key): the value, or None when the key is absent
Get(d, k) == IF k \in DOMAIN d THEN d[k] ELSE PyNone

\* d[key] = value on a dict: the key is added when absent
SetItem(d, k, v) == [x \in DOMAIN d \cup {k} |-> IF x = k THEN v ELSE d[x]]

\* copy.deepcopy of a dict of immutable values: an equal, independent dict
DeepCopy(d) == d

-----------------------------------------------------------------------------
(* The UserRequirement schema *)

RequirementTypeEnum     == {"Original", "Change Request"}
RequirementScopeEnum    == {"In-Scope", "Out-Scope"}
RequirementPriorityEnum == {"High", "Medium", "Low"}
RequirementCoverageEnum == {"Yes", "No"}

StrFields  == {"id", "name", "source", "detail"}
EnumFields == {"type", "scope", "priority", "covered_usr"}

\* UserRequirement.model_fields
ModelFields == StrFields \cup EnumFields

EnumOf(f) ==
    CASE f = "type"        -> RequirementTypeEnum
      [] f = "scope"       -> RequirementScopeEnum
      [] f = "priority"    -> RequirementPriorityEnum
      [] f = "covered_usr" -> RequirementCoverageEnum

\* (variant: the enum fields declared as plain str)
FieldAcceptsAnyStr(f, v) == IsStr(v)

\* pydantic's validation of one field: every field is required; a str field
\* takes a str only, an enum field one of the enum's values
FieldAccepts(f, v) ==
    IF f \in StrFields THEN IsStr(v) ELSE v \in EnumOf(f)

\* UserRequirement(**data) raises ValidationError unless this holds
UserRequirementValid(data) ==
    \A f \in ModelFields : f \in DOMAIN data /\ FieldAccepts(f, data[f])

\* The model UserRequirement(**data) builds: the declared fields, extra keys
\* of data are ignored
UserRequirement(data) == [f \in ModelFields |-> data[f]]

-----------------------------------------------------------------------------
(* update_user_requirements *)

\* Lines 58-62: the position of the first dict whose "id" equals the
\* requested id, 0 when the loop ends without a match
RECURSIVE FindFrom(_, _, _)
FindFrom(list, rid, i) ==
    IF i > Len(list) THEN 0
    ELSE IF Get(list[i], "id") = rid THEN i
    ELSE FindFrom(list, rid, i + 1)

\* (variant: the loop variable is used after the loop, so that without a
\* match the last dict of the list is taken)
FindRequirementKeepsLast(list, rid) ==
    IF FindFrom(list, rid, 1) # 0 THEN FindFrom(list, rid, 1) ELSE Len(list)

FindRequirement(list, rid) == FindFrom(list, rid, 1)

\* (variant: the test that skips unknown field names is inverted)
RECURSIVE ApplyUpdatedFieldsInverted(_, _, _, _)
ApplyUpdatedFieldsInverted(updated_data, changed_fields_log, previous_requirement_model, updated_fields) ==
    IF DOMAIN updated_fields = {} THEN
        [updated_data |-> updated_data, changed_fields_log |-> changed_fields_log]
    ELSE
        LET field_name == CHOOSE k \in DOMAIN updated_fields : TRUE
            rest       == [k \in DOMAIN updated_fields \ {field_name} |-> updated_fields[k]]
        IN  IF field_name \in ModelFields THEN
                ApplyUpdatedFieldsInverted(updated_data, changed_fields_log,
                                           previous_requirement_model, rest)
            ELSE
                ApplyUpdatedFieldsInverted(
                    SetItem(updated_data, field_name, updated_fields[field_name]),
                    changed_fields_log, previous_requirement_model, rest)

\* Lines 78-93: the loop over updated_fields.items().  A key that is no
\* UserRequirement field is skipped; any other key is written into
\* updated_data and logged with its old and new value.  The keys of a dict
\* are distinct, so updated_data does not depend on the iteration order;
\* the model iterates in a fixed arbitrary order.
RECURSIVE ApplyUpdatedFields(_, _, _, _)
ApplyUpdatedFields(updated_data, changed_fields_log, previous_requirement_model, updated_fields) ==
    IF DOMAIN updated_fields = {} THEN
        [updated_data |-> updated_data, changed_fields_log |-> changed_fields_log]
    ELSE
        LET field_name == CHOOSE k \in DOMAIN updated_fields : TRUE
            new_value  == updated_fields[field_name]
            rest       == [k \in DOMAIN updated_fields \ {field_name} |-> updated_fields[k]]
        IN  IF field_name \notin ModelFields THEN
                ApplyUpdatedFields(updated_data, changed_fields_log,
                                   previous_requirement_model, rest)
            ELSE
                ApplyUpdatedFields(
                    SetItem(updated_data, field_name, new_value),
                    changed_fields_log \cup
                        {<<field_name, Get(previous_requirement_model, field_name), new_value>>},
                    previous_requirement_model, rest)

\* raise ValueError(...): nothing is returned
Raise(why) ==
    [status |-> "raised", error |-> why,
     updated_requirement |-> EmptyDict,
     update_summary |-> {},
     previous_version_snapshot |-> EmptyDict]

\* return UpdatedUserRequirementsOutput(...)
Return(updated_requirement_model, changed_fields_log, previous_requirement_model) ==
    [status |-> "returned", error |-> "",
     updated_requirement |-> updated_requirement_model,
     update_summary |-> changed_fields_log,
     previous_version_snapshot |-> previous_requirement_model]

\* The whole function, lines 58-125
update_user_requirements(requirements_list, instructions) ==
    LET idx == FindRequirement(requirements_list, instructions.requirement_id_to_update)
    IN  IF idx = 0 THEN Raise("not found")
        ELSE
        LET found_req_dict_original == DeepCopy(requirements_list[idx])
        IN  IF ~UserRequirementValid(found_req_dict_original)
            THEN Raise("original invalid")
            ELSE
            LET previous_requirement_model == UserRequirement(found_req_dict_original)
                merged == ApplyUpdatedFields(DeepCopy(found_req_dict_original), {},
                                             previous_requirement_model,
                                             instructions.updated_fields)
            IN  IF ~UserRequirementValid(merged.updated_data)
                THEN Raise("updates invalid")
                ELSE Return(UserRequirement(merged.updated_data),
                            merged.changed_fields_log,
                            previous_requirement_model)

\* (variant: the deep copies are left out, updated_data is the list's dict)
UpdatedDataObjectAliased(idx) == idx

\* Lines 61 and 75: the object the merge loop writes to.  updated_data is a
\* deep copy of a deep copy of the matched dict, an object of its own (0);
\* without the copies it would be the dict at position idx of the list.
UpdatedDataObject(idx) == 0

\* current_requirements_list as the call leaves it: the dict of the list
\* that updated_data is, if any, carries the writes of the merge loop (also
\* when the call raises after the loop)
ListAfterCall(requirements_list, instructions) ==
    LET idx == FindRequirement(requirements_list, instructions.requirement_id_to_update)
    IN  IF idx = 0 \/ ~UserRequirementValid(requirements_list[idx]) THEN requirements_list
        ELSE
        LET merged == ApplyUpdatedFields(requirements_list[idx], {},
                                         UserRequirement(requirements_list[idx]),
                                         instructions.updated_fields)
            written == UpdatedDataObject(idx)
        IN  IF written = 0 THEN requirements_list
            ELSE [requirements_list EXCEPT ![written] = merged.updated_data]

-----------------------------------------------------------------------------
(* Inputs of update_user_requirements *)

MaxReqs      == 2    \* longest current_requirements_list
MaxUpdFields == 2    \* most keys in updated_fields

Req1 ==
    [id |-> "USR1", name |-> "Login", source |-> "brd.pdf", type |-> "Original",
     scope |-> "In-Scope", detail |-> "d1", priority |-> "High", covered_usr |-> "No"]

Req2 ==
    [id |-> "USR2", name |-> "Export", source |-> "brd.pdf", type |-> "Change Request",
     scope |-> "Out-Scope", detail |-> "d2", priority |-> "Low", covered_usr |-> "Yes"]

\* a second dict with the id of Req1, carrying a key that is no field
ReqExtra ==
    [id |-> "USR1", name |-> "Logout", source |-> "srs.pdf", type |-> "Original",
     scope |-> "Out-Scope", detail |-> "d4", priority |-> "Medium", covered_usr |-> "No",
     notes |-> "n"]

\* malformed: covered_usr is missing and priority is no enum value
ReqMalformed ==
    [id |-> "USR1", name |-> "Login", source |-> "brd.pdf", type |-> "Original",
     scope |-> "In-Scope", detail |-> "d1", priority |-> "Urgent"]

\* a dict without an "id" key
ReqNoId ==
    [name |-> "Login", source |-> "brd.pdf", type |-> "Original",
     scope |-> "In-Scope", detail |-> "d1", priority |-> "High", covered_usr |-> "No"]

RequirementDicts == {Req1, Req2, ReqExtra, ReqMalformed, ReqNoId}

RequirementLists == UNION {[1..n -> RequirementDicts] : n \in 0..MaxReqs}

RequirementIds == {"USR1", "USR9"}

\* The values an LLM-written updated_fields may carry for a key
NewValues(k) ==
    CASE k = "id"          -> {"USR2", PyInt}
      [] k = "name"        -> {"Sign-in", PyNone}
      [] k = "source"      -> {"srs.pdf", PyInt}
      [] k = "detail"      -> {"d3", PyNone}
      [] k = "type"        -> {"Change Request", "Defect"}
      [] k = "scope"       -> {"Out-Scope", "out-scope"}
      [] k = "priority"    -> {"Low", "Urgent"}
      [] k = "covered_usr" -> {"Yes", PyNone}
      [] OTHER             -> {"Done"}

UpdateKeys == ModelFields \cup {"status"}

RECURSIVE DictsOver(_)
DictsOver(S) ==
    IF S = {} THEN {EmptyDict}
    ELSE LET k == CHOOSE x \in S : TRUE
         IN  UNION {{SetItem(d, k, v) : v \in NewValues(k)} : d \in DictsOver(S \ {k})}

UpdatedFieldsDicts ==
    UNION {DictsOver(S) : S \in {T \in SUBSET UpdateKeys : Cardinality(T) <= MaxUpdFields}}

\* class UpdateInstructions (reason_for_update only feeds the printed summary)
UpdateInstructions ==
    [requirement_id_to_update : RequirementIds, updated_fields : UpdatedFieldsDicts]

\* No call has ended yet
NoOutput ==
    [status |-> "none", error |-> "",
     updated_requirement |-> EmptyDict,
     update_summary |-> {},
     previous_version_snapshot |-> EmptyDict]

-----------------------------------------------------------------------------
(* One call of update_user_requirements on arbitrary arguments *)

\* process_uploaded_pdf is not running
PdfOff ==
    /\ pdf_pc = "off"
    /\ file_name = <<>>
    /\ source_pdf = <<>>
    /\ temp_pdf_path = <<>>
    /\ raw_text = <<>>
    /\ tmp_files = {}
    /\ kb_bucket = EmptyDict

\* extract_information is not running
ExtractOff ==
    /\ ex_pc = "off"
    /\ ex_args = [gcs_uri |-> <<>>, project_id |-> PyNone, processor_id |-> PyNone,
                  page_chunk_size |-> 0]
    /\ pdf_document = <<>>
    /\ client = "none"
    /\ current_page_start = 0
    /\ all_extracted_text = <<>>
    /\ requests = <<>>
    /\ ex_result = EmptyDict

InitUpdate ==
    /\ ExtractOff
    /\ PdfOff
    /\ upd_pc = "ready"
    /\ current_requirements_list \in RequirementLists
    /\ update_instructions \in UpdateInstructions
    /\ list_before = current_requirements_list
    /\ upd_out = NoOutput

\* The call: it returns or raises, and leaves the list as its writes left it
\* (the function writes to deep copies)
UpdateCall ==
    /\ upd_pc = "ready"
    /\ upd_out' = update_user_requirements(current_requirements_list, update_instructions)
    /\ upd_pc' = upd_out'.status
    /\ list_before' = current_requirements_list
    /\ current_requirements_list' =
           ListAfterCall(current_requirements_list, update_instructions)
    /\ UNCHANGED <<update_instructions, ex_vars, pdf_vars>>

NextUpdate == UpdateCall

SpecUpdate == InitUpdate /\ [][NextUpdate]_vars

-----------------------------------------------------------------------------
(* A caller that keeps a list and applies updates to it one after another *)

\* The updates the caller asks for: ids and priorities of the records it holds
CallerInstructions ==
    [requirement_id_to_update : {"USR1", "USR2", "USR9"},
     updated_fields : {EmptyDict,
                       [id |-> "USR2"], [id |-> "USR1"], [id |-> PyInt],
                       [priority |-> "Low"], [priority |-> "Urgent"],
                       [status |-> "Done"],
                       [id |-> "USR2", priority |-> "Medium"]}]

InitCaller ==
    /\ ExtractOff
    /\ PdfOff
    /\ upd_pc = "idle"
    /\ current_requirements_list \in {<<>>, <<Req1>>, <<Req1, Req2>>, <<Req2, Req1>>}
    /\ update_instructions = [requirement_id_to_update |-> "USR9", updated_fields |-> EmptyDict]
    /\ list_before = current_requirements_list
    /\ upd_out = NoOutput

\* The LLM formulates the next update
CallerAsks(instructions) ==
    /\ upd_pc = "idle"
    /\ update_instructions' = instructions
    /\ upd_pc' = "ready"
    /\ UNCHANGED <<current_requirements_list, list_before, upd_out, ex_vars, pdf_vars>>

\* The caller puts the returned updated_requirement in the place of the
\* record the call matched
CallerReplaces ==
    /\ upd_pc = "returned"
    /\ LET i == FindRequirement(current_requirements_list,
                                update_instructions.requirement_id_to_update)
       IN  current_requirements_list' =
               [current_requirements_list EXCEPT ![i] = upd_out.updated_requirement]
    /\ upd_pc' = "idle"
    /\ UNCHANGED <<update_instructions, list_before, upd_out, ex_vars, pdf_vars>>

\* The caller gets the ValueError and keeps its list
CallerSeesError ==
    /\ upd_pc = "raised"
    /\ upd_pc' = "idle"
    /\ UNCHANGED <<current_requirements_list, update_instructions, list_before, upd_out, ex_vars, pdf_vars>>

NextCaller ==
    \/ \E instructions \in CallerInstructions : CallerAsks(instructions)
    \/ UpdateCall
    \/ CallerReplaces
    \/ CallerSeesError

SpecCaller == InitCaller /\ [][NextCaller]_vars

-----------------------------------------------------------------------------
(* Claims about update_user_requirements *)

\* The dict of list_before a call matches: the first one whose "id" is the
\* requested id
IsMatch(i) ==
    /\ "id" \in DOMAIN list_before[i]
    /\ list_before[i]["id"] = update_instructions.requirement_id_to_update

HasMatch == \E i \in 1..Len(list_before) : IsMatch(i)

MatchedRecord ==
    list_before[CHOOSE i \in 1..Len(list_before) :
                    IsMatch(i) /\ \A j \in 1..(i - 1) : ~IsMatch(j)]

UpdateDone == upd_pc \in {"returned", "raised"}

\* C1: when update_user_requirements returns, every UserRequirement field
\* that is no key of updated_fields has in updated_requirement the value it
\* has in the matched record, and every field that is a key has the new value.
C1_OnlyNamedFieldsModified ==
    upd_pc = "returned" =>
        \A f \in {"id", "name", "source", "type", "scope", "detail", "priority", "covered_usr"} :
            upd_out.updated_requirement[f] =
                IF f \in DOMAIN update_instructions.updated_fields
                THEN update_instructions.updated_fields[f]
                ELSE MatchedRecord[f]

\* A return where one field got a new value, others were left alone and a
\* key that is no field was given too
C1_Witness ==
    /\ upd_pc = "returned"
    /\ \E f \in DOMAIN update_instructions.updated_fields :
           /\ f \in ModelFields
           /\ MatchedRecord[f] # update_instructions.updated_fields[f]
           /\ upd_out.updated_requirement[f] = update_instructions.updated_fields[f]
    /\ \E k \in DOMAIN update_instructions.updated_fields : k \notin ModelFields

\* C2: when no record of the list has the requested id (the empty list
\* included), the call raises ValueError and returns no output.
C2_UnknownIdRaises ==
    (UpdateDone /\ ~HasMatch) =>
        /\ upd_out.status = "raised"
        /\ upd_out.updated_requirement = EmptyDict
        /\ upd_out.previous_version_snapshot = EmptyDict

\* A raise on a non-empty list none of whose ids is the requested one
C2_Witness ==
    /\ upd_pc = "raised"
    /\ upd_out.error = "not found"
    /\ ~HasMatch
    /\ Len(list_before) > 0
    /\ \E i \in 1..Len(list_before) : "id" \in DOMAIN list_before[i]

\* The record the updates ask for: the matched record with the keys of
\* updated_fields that are fields written over it
MergedValue(f) ==
    IF f \in DOMAIN update_instructions.updated_fields
    THEN update_instructions.updated_fields[f]
    ELSE Get(MatchedRecord, f)

EnumsInRange(value_of(_)) ==
    /\ value_of("type") \in {"Original", "Change Request"}
    /\ value_of("scope") \in {"In-Scope", "Out-Scope"}
    /\ value_of("priority") \in {"High", "Medium", "Low"}
    /\ value_of("covered_usr") \in {"Yes", "No"}

\* C3: a returned updated_requirement has type, scope, priority and
\* covered_usr inside their fixed sets, and an update whose merged record
\* would put one of them outside raises ValueError.
C3_ReturnedRequirementValid ==
    /\ upd_pc = "returned" =>
           LET returned(f) == upd_out.updated_requirement[f] IN EnumsInRange(returned)
    /\ (UpdateDone /\ HasMatch /\ ~EnumsInRange(MergedValue)) => upd_out.status = "raised"

\* A raise caused by an updated enum value outside its set, on a record that
\* was valid before
C3_Witness ==
    /\ upd_pc = "raised"
    /\ upd_out.error = "updates invalid"
    /\ HasMatch
    /\ LET before(f) == Get(MatchedRecord, f) IN EnumsInRange(before)
    /\ ~EnumsInRange(MergedValue)

\* C4: a list whose ids are pairwise distinct keeps pairwise distinct ids
\* under any sequence of updates whose results the caller writes back.
C4_IdsStayUnique ==
    \A i, j \in 1..Len(current_requirements_list) :
        i # j => current_requirements_list[i]["id"] # current_requirements_list[j]["id"]

-----------------------------------------------------------------------------
(* extract_information *)

(* Text is a sequence of tokens.  gcs_uri is spelled character by          *)
(* character; an exception message is spelled word by word, and the        *)
(* substring tests of line 124 are tests for a run of consecutive words.   *)

MaxPages == 4    \* most pages of the PDF
MaxChunk == 3    \* largest page_chunk_size

\* str.startswith
StartsWith(str, prefix) ==
    /\ Len(str) >= Len(prefix)
    /\ SubSeq(str, 1, Len(prefix)) = prefix

\* str.lower, per word
LowerWord(w) ==
    CASE w = "Invalid"  -> "invalid"
      [] w = "Page"     -> "page"
      [] w = "Range"    -> "range"
      [] w = "Deadline" -> "deadline"
      [] OTHER          -> w

Lower(str) == [i \in 1..Len(str) |-> LowerWord(str[i])]

\* phrase in str
Contains(str, phrase) ==
    \E i \in 0..(Len(str) - Len(phrase)) : SubSeq(str, i + 1, i + Len(phrase)) = phrase

\* "".join(list)
RECURSIVE Join(_)
Join(list) == IF list = <<>> THEN <<>> ELSE Head(list) \o Join(Tail(list))

\* (variant: the test for the end of the document is left out)
SignalsOutOfRangeNever(e) == FALSE

\* (variant: every exception is taken for the end of the document)
SignalsOutOfRangeAlways(e) == TRUE

\* Line 124: the message of e names an invalid page range
SignalsOutOfRange(e) ==
    \/ Contains(Lower(e), <<"page", "range">>)
    \/ Contains(Lower(e), <<"out", "of", "range">>)

\* (variant: the test of the URI scheme is left out)
InputErrorNoUriCheck(gcs_uri, project_id, processor_id, page_chunk_size) ==
    IF project_id = PyNone \/ processor_id = PyNone THEN
        <<"Project ID or Processor ID are not configured.">>
    ELSE IF page_chunk_size <= 0 THEN
        <<"page_chunk_size must be a positive integer.">>
    ELSE <<>>

\* Lines 51-57: the error message of the input validation, <<>> when the
\* inputs pass
InputError(gcs_uri, project_id, processor_id, page_chunk_size) ==
    IF project_id = PyNone \/ processor_id = PyNone THEN
        <<"Project ID or Processor ID are not configured.">>
    ELSE IF ~StartsWith(gcs_uri, <<"g", "s", ":", "/", "/">>) THEN
        <<"Invalid GCS URI. It must start with 'gs://'.">>
    ELSE IF page_chunk_size <= 0 THEN
        <<"page_chunk_size must be a positive integer.">>
    ELSE <<>>

\* The Document AI service on a request for the pages first..last of a PDF,
\* when it answers: the pages of the range the PDF has, and their text
RECURSIVE TextOfPages(_, _, _)
TextOfPages(pdf, first, last) ==
    IF first > last \/ first > Len(pdf) THEN <<>>
    ELSE pdf[first] \o TextOfPages(pdf, first + 1, last)

ProcessDocument(pdf, first, last) ==
    [text  |-> TextOfPages(pdf, first, last),
     pages |-> Cardinality((first..last) \cap (1..Len(pdf)))]

\* (variant: the next chunk starts one page too far)
NextPageStartSkips(page_end) == page_end + 2

\* Line 121
NextPageStart(page_end) == page_end + 1

\* Line 107
NoTextNoPages(document) == document.text = <<>> /\ document.pages = 0

\* (variant: only a chunk without pages ends the loop)
FewerPagesThanChunkOnlyEmpty(document, page_chunk_size) == document.pages = 0

\* Line 117
FewerPagesThanChunk(document, page_chunk_size) ==
    document.pages = 0 \/ document.pages < page_chunk_size

\* return {"error": message}
ErrorRecord(message) == [k \in {"error"} |-> message]

\* (variant: the error is returned next to the text gathered so far)
ApiErrorRecordKeepsText(first, last, e, texts) ==
    [k \in {"error", "extracted_text"} |->
        IF k = "error" THEN <<"An API error occurred">> \o e ELSE Join(texts)]

\* Line 128
ApiErrorRecord(first, last, e, texts) ==
    ErrorRecord(<<"An API error occurred during document processing for pages",
                  ToString(first), ToString(last)>> \o e)

\* Lines 130-135
TextRecord(texts) ==
    [k \in {"extracted_text"} |-> IF texts = <<>> THEN <<>> ELSE Join(texts)]

-----------------------------------------------------------------------------
(* Inputs and environment of extract_information *)

PageTokens == <<"p1", "p2", "p3", "p4", "p5", "p6", "p7", "p8">>

\* PDFs of up to MaxPages pages; a page carries its own token or no text
Documents ==
    UNION {{[i \in 1..n |-> IF i \in blank THEN <<>> ELSE <<PageTokens[i]>>] :
                blank \in SUBSET (1..n)} : n \in 0..MaxPages}

GcsUris ==
    {<<"g", "s", ":", "/", "/", "b", "/", "f">>,
     <<"g", "s", ":", "/", "b">>,
     <<"G", "S", ":", "/", "/", "b">>,
     <<"g", "s", ":">>,
     <<>>}

ExtractArgs ==
    [gcs_uri : GcsUris, project_id : {PyNone, "", "proj"}, processor_id : {PyNone, "ocr"},
     page_chunk_size : (-1)..MaxChunk]

\* Messages of the exceptions the Document AI SDK may raise
ErrorMessages ==
    {<<"Invalid", "Page", "Range">>,
     <<"index", "out", "of", "range">>,
     <<"Deadline", "exceeded">>,
     <<"page", "out", "of", "quota", "range">>}

\* update_user_requirements is not running
UpdateOff ==
    /\ upd_pc = "off"
    /\ current_requirements_list = <<>>
    /\ update_instructions = [requirement_id_to_update |-> "", updated_fields |-> EmptyDict]
    /\ list_before = <<>>
    /\ upd_out = NoOutput

InitExtract ==
    /\ UpdateOff
    /\ PdfOff
    /\ ex_pc = "start"
    /\ ex_args \in ExtractArgs
    /\ pdf_document \in Documents
    /\ client = "none"
    /\ current_page_start = 0
    /\ all_extracted_text = <<>>
    /\ requests = <<>>
    /\ ex_result = EmptyDict

\* Lines 51-57
ValidateInputs ==
    /\ ex_pc = "start"
    /\ LET message == InputError(ex_args.gcs_uri, ex_args.project_id,
                                 ex_args.processor_id, ex_args.page_chunk_size)
       IN  IF message # <<>>
           THEN ex_result' = ErrorRecord(message) /\ ex_pc' = "done"
           ELSE ex_result' = ex_result /\ ex_pc' = "client"
    /\ UNCHANGED <<ex_args, pdf_document, client, current_page_start,
                   all_extracted_text, requests, upd_vars, pdf_vars>>

\* Lines 61-63 and 69-73: the client is built, the loop is entered
ClientConstructed ==
    /\ ex_pc = "client"
    /\ client' = "constructed"
    /\ all_extracted_text' = <<>>
    /\ current_page_start' = 1
    /\ ex_pc' = "loop"
    /\ UNCHANGED <<ex_args, pdf_document, requests, ex_result, upd_vars, pdf_vars>>

\* Lines 64-66: building the client raises e
ClientConstructionFails(e) ==
    /\ ex_pc = "client"
    /\ ex_result' = ErrorRecord(<<"Failed to initialize Document AI client:">> \o e)
    /\ ex_pc' = "done"
    /\ UNCHANGED <<ex_args, pdf_document, client, current_page_start,
                   all_extracted_text, requests, upd_vars, pdf_vars>>

\* Lines 76-121: one pass of the loop in which process_document answers
ChunkReturns ==
    /\ ex_pc = "loop"
    /\ LET page_end == current_page_start + ex_args.page_chunk_size - 1
           document == ProcessDocument(pdf_document, current_page_start, page_end)
       IN  /\ requests' = Append(requests,
                                 [first |-> current_page_start, last |-> page_end,
                                  outcome |-> "returned", pages |-> document.pages,
                                  message |-> <<>>])
           /\ IF NoTextNoPages(document) THEN
                  /\ ex_pc' = "after"
                  /\ UNCHANGED <<all_extracted_text, current_page_start>>
              ELSE
                  /\ all_extracted_text' =
                         IF document.text # <<>>
                         THEN Append(all_extracted_text, document.text)
                         ELSE all_extracted_text
                  /\ IF FewerPagesThanChunk(document, ex_args.page_chunk_size)
                     THEN ex_pc' = "after" /\ UNCHANGED current_page_start
                     ELSE ex_pc' = "loop" /\ current_page_start' = NextPageStart(page_end)
    /\ UNCHANGED <<ex_args, pdf_document, client, ex_result, upd_vars, pdf_vars>>

\* Lines 76-104 and 123-128: one pass of the loop in which process_document
\* raises e
ChunkRaises(e) ==
    /\ ex_pc = "loop"
    /\ LET page_end == current_page_start + ex_args.page_chunk_size - 1
       IN  /\ requests' = Append(requests,
                                 [first |-> current_page_start, last |-> page_end,
                                  outcome |-> "raised", pages |-> 0, message |-> e])
           /\ IF SignalsOutOfRange(e)
              THEN ex_pc' = "after" /\ UNCHANGED ex_result
              ELSE /\ ex_result' = ApiErrorRecord(current_page_start, page_end, e,
                                                  all_extracted_text)
                   /\ ex_pc' = "done"
    /\ UNCHANGED <<ex_args, pdf_document, client, current_page_start,
                   all_extracted_text, upd_vars, pdf_vars>>

\* Lines 130-135
ReturnText ==
    /\ ex_pc = "after"
    /\ ex_result' = TextRecord(all_extracted_text)
    /\ ex_pc' = "done"
    /\ UNCHANGED <<ex_args, pdf_document, client, current_page_start,
                   all_extracted_text, requests, upd_vars, pdf_vars>>

NextExtract ==
    \/ ValidateInputs
    \/ ClientConstructed
    \/ \E e \in ErrorMessages : ClientConstructionFails(e)
    \/ ChunkReturns
    \/ \E e \in ErrorMessages : ChunkRaises(e)
    \/ ReturnText

SpecExtract == InitExtract /\ [][NextExtract]_vars

-----------------------------------------------------------------------------
(* Claims about extract_information *)

ExtractDone == ex_pc = "done"

\* C5: every return of extract_information is a dict with exactly one of the
\* keys "extracted_text" and "error".
C5_ExactlyOneKey ==
    ExtractDone => (DOMAIN ex_result = {"extracted_text"} \/ DOMAIN ex_result = {"error"})

\* An error return after text had been gathered from an earlier chunk
C5_Witness ==
    /\ ExtractDone
    /\ DOMAIN ex_result = {"error"}
    /\ all_extracted_text # <<>>
    /\ Len(requests) >= 2

NoRequestRaised == \A i \in 1..Len(requests) : requests[i].outcome = "returned"

\* Every call behaved normally: it answered, or it was a request for pages
\* past the end of the PDF that the service refused as out of range
EveryCallNormal ==
    \A i \in 1..Len(requests) :
        \/ requests[i].outcome = "returned"
        \/ /\ requests[i].first > Len(pdf_document)
           /\ requests[i].message \in {<<"Invalid", "Page", "Range">>,
                                       <<"index", "out", "of", "range">>}

NumPages == Len(pdf_document)

\* The page whose text is the token t, 0 for any other token
PageOfToken(t) ==
    IF \E i \in 1..NumPages : pdf_document[i] = <<t>>
    THEN CHOOSE i \in 1..NumPages : pdf_document[i] = <<t>>
    ELSE 0

\* C6: for N >= 1 pages and page_chunk_size >= 1, when every process_document
\* call behaves normally, extracted_text is the text of all N pages in page
\* order, no page missing and no page repeated, also when N is a multiple of
\* page_chunk_size and when the last chunk's range reaches past page N.
C6_AllPagesInOrder ==
    (ExtractDone /\ client = "constructed" /\ EveryCallNormal /\ NumPages >= 1) =>
        /\ DOMAIN ex_result = {"extracted_text"}
        /\ LET text == ex_result["extracted_text"]
           IN  /\ \A i \in 1..NumPages :
                      pdf_document[i] # <<>> =>
                          Cardinality({k \in 1..Len(text) : <<text[k]>> = pdf_document[i]}) = 1
               /\ \A k \in 1..Len(text) : PageOfToken(text[k]) # 0
               /\ \A k, m \in 1..Len(text) :
                      k < m => PageOfToken(text[k]) < PageOfToken(text[m])

\* N is twice the chunk size: two full chunks and a third request past the end
C6_Witness ==
    /\ ExtractDone
    /\ NoRequestRaised
    /\ ex_args.page_chunk_size >= 2
    /\ NumPages = 2 * ex_args.page_chunk_size
    /\ Len(requests) = 3
    /\ Len(ex_result["extracted_text"]) = NumPages

\* The messages of the model that contain "page range" or "out of range"
OutOfRangeMessages ==
    {<<"Invalid", "Page", "Range">>, <<"index", "out", "of", "range">>}

RaisedOutOfRange(i) ==
    requests[i].outcome = "raised" /\ requests[i].message \in OutOfRangeMessages

RaisedOther(i) ==
    requests[i].outcome = "raised" /\ requests[i].message \notin OutOfRangeMessages

\* C7: when process_document raises an error that signals an out-of-range
\* page request, no further request is issued and the text of the earlier
\* chunks is returned under "extracted_text" (the empty text if there is
\* none), not an "error" record.
C7_OutOfRangeEndsWithText ==
    \A i \in 1..Len(requests) :
        RaisedOutOfRange(i) =>
            /\ i = Len(requests)
            /\ ex_pc \in {"after", "done"}
            /\ ExtractDone =>
                   ex_result = [k \in {"extracted_text"} |->
                                   TextOfPages(pdf_document, 1, requests[i].first - 1)]

\* The second request raises an out-of-range error after a first chunk with text
C7_Witness ==
    /\ ExtractDone
    /\ Len(requests) = 2
    /\ RaisedOutOfRange(2)
    /\ DOMAIN ex_result = {"extracted_text"}
    /\ ex_result["extracted_text"] # <<>>

InputsPass ==
    /\ ex_args.project_id # PyNone
    /\ ex_args.processor_id # PyNone
    /\ Len(ex_args.gcs_uri) >= 5
    /\ ex_args.gcs_uri[1] = "g" /\ ex_args.gcs_uri[2] = "s" /\ ex_args.gcs_uri[3] = ":"
    /\ ex_args.gcs_uri[4] = "/" /\ ex_args.gcs_uri[5] = "/"
    /\ ex_args.page_chunk_size > 0

\* The construction of the client raised
ClientFailed == ExtractDone /\ InputsPass /\ client = "none"

\* C8: an error raised by the construction of the client, or by a
\* process_document call and not an out-of-range signal, ends the call with a
\* dict that has the key "error" and not the gathered text.
C8_OtherErrorsReturnError ==
    /\ ClientFailed => (DOMAIN ex_result = {"error"} /\ requests = <<>>)
    /\ \A i \in 1..Len(requests) :
           RaisedOther(i) =>
               /\ i = Len(requests)
               /\ ExtractDone
               /\ DOMAIN ex_result = {"error"}
               /\ Contains(ex_result["error"], requests[i].message)

\* A request that raises another error after a first chunk with text
C8_Witness ==
    /\ ExtractDone
    /\ Len(requests) = 2
    /\ RaisedOther(2)
    /\ all_extracted_text # <<>>
    /\ "extracted_text" \notin DOMAIN ex_result

\* C9: with project_id or processor_id None, a gcs_uri that does not start
\* with "gs://" or page_chunk_size <= 0, the call returns an "error" record,
\* builds no client and issues no process_document request.
C9_InvalidInputsNoCloudCall ==
    ~InputsPass =>
        /\ ex_pc \in {"start", "done"}
        /\ client = "none"
        /\ requests = <<>>
        /\ ExtractDone => DOMAIN ex_result = {"error"}

\* A return on a URI without the gs:// scheme, all else being valid
C9_Witness ==
    /\ ExtractDone
    /\ ex_args.project_id # PyNone /\ ex_args.processor_id # PyNone
    /\ ex_args.page_chunk_size > 0
    /\ ~InputsPass
    /\ DOMAIN ex_result = {"error"}

-----------------------------------------------------------------------------
(* process_uploaded_pdf *)

(* File names and page texts are spelled character by character. *)

MaxPdfPages == 2    \* most pages of an uploaded PDF

Whitespace == {" ", "\n"}

\* str.lower, per character
LowerChar(c) ==
    CASE c = "A" -> "a"
      [] c = "P" -> "p"
      [] c = "D" -> "d"
      [] c = "F" -> "f"
      [] OTHER   -> c

LowerChars(str) == [i \in 1..Len(str) |-> LowerChar(str[i])]

\* str.endswith
EndsWith(str, suffix) ==
    /\ Len(str) >= Len(suffix)
    /\ SubSeq(str, Len(str) - Len(suffix) + 1, Len(str)) = suffix

\* The pieces of str between the characters of seps, empty pieces included
RECURSIVE SplitFrom(_, _, _, _, _)
SplitFrom(str, seps, i, piece, pieces) ==
    IF i > Len(str) THEN Append(pieces, piece)
    ELSE IF str[i] \in seps THEN SplitFrom(str, seps, i + 1, <<>>, Append(pieces, piece))
    ELSE SplitFrom(str, seps, i + 1, Append(piece, str[i]), pieces)

SplitOn(str, seps) == SplitFrom(str, seps, 1, <<>>, <<>>)

\* str.splitlines: a final line break opens no further line
SplitLines(str) ==
    LET pieces == SplitOn(str, {"\n"})
    IN  IF pieces[Len(pieces)] = <<>> THEN SubSeq(pieces, 1, Len(pieces) - 1) ELSE pieces

\* line.strip() is not empty
HasText(line) == \E i \in 1..Len(line) : line[i] \notin Whitespace

NotEmpty(piece) == piece # <<>>

\* str.split(): the words between runs of whitespace
SplitWords(str) == SelectSeq(SplitOn(str, Whitespace), NotEmpty)

\* sep.join(list)
RECURSIVE JoinWith(_, _)
JoinWith(sep, list) ==
    IF list = <<>> THEN <<>>
    ELSE IF Len(list) = 1 THEN list[1]
    ELSE list[1] \o <<sep>> \o JoinWith(sep, Tail(list))

\* Lines 43-44: empty lines removed, whitespace runs turned into one space
CleanText(text) ==
    LET without_empty_lines == JoinWith("\n", SelectSeq(SplitLines(text), HasText))
    IN  JoinWith(" ", SplitWords(without_empty_lines))

\* os.path.basename
Basename(path) ==
    LET pieces == SplitOn(path, {"/"}) IN pieces[Len(pieces)]

\* os.path.splitext(name)[0] of a name without a directory: the name up to
\* its last dot, unless only dots come before that dot
SplitextRoot(name) ==
    LET dots == {i \in 1..Len(name) : name[i] = "."}
        last_dot == IF dots = {} THEN 0 ELSE CHOOSE i \in dots : \A j \in dots : j <= i
    IN  IF last_dot > 0 /\ \E k \in 1..(last_dot - 1) : name[k] # "."
        THEN SubSeq(name, 1, last_dot - 1)
        ELSE name

\* (variant: ".pdf" is looked for anywhere in the name)
IsPdfNameAnywhere(name) == Contains(LowerChars(name), <<".", "p", "d", "f">>)

\* Line 20
IsPdfName(name) == EndsWith(LowerChars(name), <<".", "p", "d", "f">>)

\* Line 31
TempPdfPath(name) == <<"/", "t", "m", "p", "/">> \o Basename(name)

\* Line 47
KbBlobName(name) == <<"processed_raw_text/">> \o SplitextRoot(Basename(name)) \o <<".txt">>

\* Lines 36-39: the text of the pages, one after the other
RECURSIVE PagesText(_)
PagesText(pages) == IF pages = <<>> THEN <<>> ELSE Head(pages) \o PagesText(Tail(pages))

\* Lines 56-59: the finally block
RemoveTempFile(files, path) == IF path \in files THEN files \ {path} ELSE files

-----------------------------------------------------------------------------
(* Inputs and environment of process_uploaded_pdf *)

FileNames ==
    {<<"a", ".", "p", "d", "f">>,
     <<"A", ".", "P", "D", "F">>,
     <<"d", "/", "a", ".", "p", "d", "f">>,
     <<"a", ".", "t", "x", "t">>,
     <<"a", ".", "p", "d", "f", ".", "b", "a", "k">>,
     <<".", "p", "d", "f">>,
     <<"p", "d", "f">>}

PageTexts ==
    {<<"a", " ", " ", "b", "\n">>, <<"\n", " ", "\n">>, <<"c">>}

SourcePdfs == UNION {[1..n -> PageTexts] : n \in 0..MaxPdfPages}

\* A file an earlier invocation may have left under /tmp
StalePath == <<"/", "t", "m", "p", "/", "a", ".", "p", "d", "f">>

InitPdf ==
    /\ UpdateOff
    /\ ExtractOff
    /\ pdf_pc = "event"
    /\ file_name \in FileNames
    /\ source_pdf \in SourcePdfs
    /\ temp_pdf_path = <<>>
    /\ raw_text = <<>>
    /\ tmp_files \in {{}, {StalePath}}
    /\ kb_bucket = EmptyDict

\* Lines 15-31: the event is read; a name that is no PDF name ends the call
ReceiveEvent ==
    /\ pdf_pc = "event"
    /\ IF ~IsPdfName(file_name)
       THEN pdf_pc' = "skipped" /\ UNCHANGED temp_pdf_path
       ELSE pdf_pc' = "download" /\ temp_pdf_path' = TempPdfPath(file_name)
    /\ UNCHANGED <<file_name, source_pdf, raw_text, tmp_files, kb_bucket, upd_vars, ex_vars>>

\* Lines 32-34: the object is written to the temporary path
DownloadSucceeds ==
    /\ pdf_pc = "download"
    /\ tmp_files' = tmp_files \cup {temp_pdf_path}
    /\ raw_text' = <<>>
    /\ pdf_pc' = "extract"
    /\ UNCHANGED <<file_name, source_pdf, temp_pdf_path, kb_bucket, upd_vars, ex_vars>>

\* Line 32: download_to_filename raises.  It has opened the temporary file
\* for writing; the storage library deletes that file for some errors and
\* leaves it for the others.  The call is outside the try block, so the
\* exception leaves process_uploaded_pdf.
DownloadFails(file_left) ==
    /\ pdf_pc = "download"
    /\ tmp_files' = IF file_left THEN tmp_files \cup {temp_pdf_path}
                    ELSE tmp_files \ {temp_pdf_path}
    /\ pdf_pc' = "raised"
    /\ UNCHANGED <<file_name, source_pdf, temp_pdf_path, raw_text, kb_bucket, upd_vars, ex_vars>>

\* Lines 36-44: the pages are read and the text is cleaned
ExtractTextSucceeds ==
    /\ pdf_pc = "extract"
    /\ raw_text' = CleanText(PagesText(source_pdf))
    /\ pdf_pc' = "upload"
    /\ UNCHANGED <<file_name, source_pdf, temp_pdf_path, tmp_files, kb_bucket, upd_vars, ex_vars>>

\* Lines 36-40 raise (no readable PDF); lines 54-59 follow
ExtractTextFails ==
    /\ pdf_pc = "extract"
    /\ tmp_files' = RemoveTempFile(tmp_files, temp_pdf_path)
    /\ pdf_pc' = "finished"
    /\ UNCHANGED <<file_name, source_pdf, temp_pdf_path, raw_text, kb_bucket, upd_vars, ex_vars>>

\* Lines 47-52, then the finally block
UploadSucceeds ==
    /\ pdf_pc = "upload"
    /\ kb_bucket' = SetItem(kb_bucket, KbBlobName(file_name), raw_text)
    /\ tmp_files' = RemoveTempFile(tmp_files, temp_pdf_path)
    /\ pdf_pc' = "finished"
    /\ UNCHANGED <<file_name, source_pdf, temp_pdf_path, raw_text, upd_vars, ex_vars>>

\* Line 50 raises; lines 54-59 follow
UploadFails ==
    /\ pdf_pc = "upload"
    /\ tmp_files' = RemoveTempFile(tmp_files, temp_pdf_path)
    /\ pdf_pc' = "finished"
    /\ UNCHANGED <<file_name, source_pdf, temp_pdf_path, raw_text, kb_bucket, upd_vars, ex_vars>>

NextPdf ==
    \/ ReceiveEvent
    \/ DownloadSucceeds
    \/ \E file_left \in BOOLEAN : DownloadFails(file_left)
    \/ ExtractTextSucceeds
    \/ ExtractTextFails
    \/ UploadSucceeds
    \/ UploadFails

SpecPdf == InitPdf /\ [][NextPdf]_vars

-----------------------------------------------------------------------------
(* Claims about process_uploaded_pdf *)

PdfEnded == pdf_pc \in {"finished", "raised"}

\* C10: once the download to /tmp has started, the temporary file does not
\* exist when process_uploaded_pdf ends, whether the download, the text
\* extraction and the upload succeeded or one of them failed.
C10_TempFileRemoved ==
    PdfEnded => temp_pdf_path \notin tmp_files

\* The name ends in ".pdf", in any mix of upper and lower case
EndsInDotPdf(name) ==
    /\ Len(name) >= 4
    /\ name[Len(name) - 3] = "."
    /\ name[Len(name) - 2] \in {"p", "P"}
    /\ name[Len(name) - 1] \in {"d", "D"}
    /\ name[Len(name)] \in {"f", "F"}

\* C11: an event whose file name does not end in ".pdf" (compared without
\* regard to case) is skipped: nothing is downloaded, no temporary file is
\* created and no object is written to the Knowledge Base bucket; only an
\* event for a PDF name can produce a processed_raw_text/<name>.txt object.
C11_NonPdfSkipped ==
    /\ ~EndsInDotPdf(file_name) =>
           /\ pdf_pc \in {"event", "skipped"}
           /\ temp_pdf_path = <<>>
           /\ tmp_files \subseteq {StalePath}
           /\ kb_bucket = EmptyDict
    /\ kb_bucket # EmptyDict =>
           /\ EndsInDotPdf(file_name)
           /\ DOMAIN kb_bucket = {KbBlobName(file_name)}

\* A skipped event whose name has ".pdf" inside it but not at its end
C11_Witness ==
    /\ pdf_pc = "skipped"
    /\ ~EndsInDotPdf(file_name)
    /\ \E i \in 1..(Len(file_name) - 4) :
           SubSeq(file_name, i, i + 3) = <<".", "p", "d", "f">>

\* C12: within one invocation the requested page ranges are [1..c],
\* [c+1..2c], [2c+1..3c], ... for c = page_chunk_size: consecutive, without
\* overlap, each requested once, and no request follows a request that
\* raised an error or returned fewer than c pages.
C12_NoRetry ==
    \A i \in 1..Len(requests) :
        /\ requests[i].first = (i - 1) * ex_args.page_chunk_size + 1
        /\ requests[i].last = i * ex_args.page_chunk_size
        /\ \A j \in 1..Len(requests) :
               j < i =>
                   /\ requests[j].last < requests[i].first
                   /\ requests[j].outcome = "returned"
                   /\ requests[j].pages = ex_args.page_chunk_size

\* The call ended after a full chunk followed by a chunk with fewer pages
C12_Witness ==
    /\ ExtractDone
    /\ Len(requests) = 2
    /\ requests[1].pages = ex_args.page_chunk_size
    /\ requests[2].outcome = "returned"
    /\ requests[2].pages > 0
    /\ requests[2].pages < ex_args.page_chunk_size

\* C13: after a call that returns or raises, current_requirements_list and
\* every record in it are as they were before the call, and on return
\* previous_version_snapshot holds, field by field, the matched record as it
\* was before the update, whatever was written into updated_requirement.
C13_ArgumentsAndSnapshotKept ==
    /\ UpdateDone => current_requirements_list = list_before
    /\ upd_pc = "returned" =>
           /\ \A f \in {"id", "name", "source", "type", "scope", "detail",
                        "priority", "covered_usr"} :
                  upd_out.previous_version_snapshot[f] = MatchedRecord[f]
           /\ DOMAIN MatchedRecord = ModelFields =>
                  upd_out.previous_version_snapshot = MatchedRecord

\* A return whose updated_requirement differs from the snapshot
C13_Witness ==
    /\ upd_pc = "returned"
    /\ upd_out.updated_requirement # upd_out.previous_version_snapshot
    /\ DOMAIN MatchedRecord = ModelFields
    /\ Len(current_requirements_list) >= 2

=============================================================================
